---- MODULE Spec2Model ----
(***************************************************************************)
(* Model of the Player aggregate of Ayesha-2.0                            *)
(* (src/Utilities/PlayerObject.py): one loaded Player object `mem`, the   *)
(* rows of the durable store that belong to the same player `db`, and one *)
(* action per method of Player.  A method is one step: the state after    *)
(* the step is the state when the awaited call has returned or raised.    *)
(***************************************************************************)
EXTENDS Integers, Sequences, FiniteSets, TLC

VARIABLES
    mem,        \* the in-memory Player object (self)
    db,         \* the store: this player's rows in players, equips, resources, ...
    record,     \* the stored rows the Player object was constructed from
    pre,        \* [mem, db] as they were when the last call started
    call,       \* the last call: method name and arguments
    outcome,    \* "ok", or the name of the exception the last call raised
    nwrites,    \* number of write statements the last call issued to the store
    events,     \* what the last call sent to collaborators (ctx.respond, acolytes)
    clean,      \* TRUE while every call so far has returned normally
    ncalls,     \* number of calls made so far
    faults,     \* TRUE when the store may raise on a write
    curve,      \* the input and result of get_level when it is checked on its own
    guild,      \* several players joining associations at once: their stored
                \* assc column and where each join_assc call stands
    sessions    \* two request handlers, each with its own Player object of
                \* the same player, and that player's stored rows

vars == <<mem, db, record, pre, call, outcome, nwrites, events, clean, ncalls,
          faults, curve, guild, sessions>>

----------------------------------------------------------------------------
(* Bounds of the model *)

\* calls made on one loaded Player object in one behaviour
MaxCalls == 2
\* get_level is evaluated within this distance of every level threshold
XpWindow == 2
\* thresholds f(n), g(n) are taken for n up to this level
MaxCurveLevel == 45
\* xp gains applied after the first evaluation of get_level
MaxCurveSteps == 2
\* join_assc calls started by the players that join at once
MaxJoins == 3
\* give_gravitas calls started by the two request handlers together
MaxGravitasCalls == 3

----------------------------------------------------------------------------
(* Values *)

\* Python None / SQL NULL in an ID column
NULL == 0
\* Python None / SQL NULL in a text column
NoText == "None"

\* len(name) > 32 is rejected by set_char_name
MaxNameLen == 32

\* a string of n characters
Name(n) == [i \in 1..n |-> "a"]

\* int(a / b) for b > 0: true division, then truncation toward zero
IntDiv(a, b) == IF a >= 0 THEN a \div b ELSE -((-a) \div b)

\* The result of one call of a method of Player
R(m, d, out, nw, ev) ==
    [mem |-> m, db |-> d, outcome |-> out, nwrites |-> nw, events |-> ev]

\* asyncpg raising from conn.execute
StoreError == "StoreError"

----------------------------------------------------------------------------
(* Progression curve: Player.get_level *)

f(x) == 10 * x^3 + 500

g_no_offset(x) == (x^4) \div 5

\* int(1/5 * x**4 + 108500): the float product truncates to x^4 div 5 for x >= 0
g(x) == (x^4) \div 5 + 108500

RECURSIVE while_f(_, _)
while_f(xp, level) == IF xp >= f(level) THEN while_f(xp, level + 1) ELSE level

RECURSIVE while_g(_, _)
while_g(xp, level) == IF xp >= g(level) THEN while_g(xp, level + 1) ELSE level

\* get_level(get_next = False) for self.xp = xp
get_level(xp) ==
    LET level == IF xp <= 540500 THEN while_f(xp, 0) ELSE while_g(xp, 31)
    IN  IF level > 0 THEN level - 1 ELSE 0

\* get_level(get_next = True): <<level, xp needed to level up>>
get_level_next(xp) ==
    LET level == get_level(xp)
    IN  IF level >= 30 THEN <<level, g(level + 1) - xp>>
                       ELSE <<level, f(level + 1) - xp>>

\* The level each branch of get_level gives on its own: the loop of the
\* branch followed by the final `level - 1 if level > 0 else 0`
cubic_level(xp) ==
    LET level == while_f(xp, 0) IN IF level > 0 THEN level - 1 ELSE 0

quartic_level(xp) ==
    LET level == while_g(xp, 31) IN IF level > 0 THEN level - 1 ELSE 0

----------------------------------------------------------------------------
(* The store, as far as the methods of Player read it *)

\* items, armor, accessories, acolytes: the rows with this player's user_id
OwnedWeapons == {1}
OwnedArmor == {1, 2, 3, 4}
OwnedAccessories == {1}
OwnedAcolytes == {1}

\* armor.slot of the armor rows
ArmorSlot(armor_id) ==
    CASE armor_id = 1 -> "Helmet"
      [] armor_id = 2 -> "Bodypiece"
      [] armor_id = 3 -> "Boots"
      [] OTHER        -> "Gloves"

\* the associations that exist; any other ID resolves to the empty Association
AssociationIds == {1, 2}

\* members of each association other than this player
OtherMembers(assc_id) == IF assc_id = 1 THEN 1 ELSE 2

\* Association.get_member_capacity()
get_member_capacity(assc_id) == 2

\* Association.get_member_count(conn): players whose stored assc is assc_id
get_member_count(d, assc_id) ==
    OtherMembers(assc_id) + (IF d.assc = assc_id THEN 1 ELSE 0)

\* AssociationObject.get_assc_by_id: the association, or the empty one
get_assc_by_id(assc_id) == IF assc_id \in AssociationIds THEN assc_id ELSE NULL

\* the columns of the resources table kept by the model (two of the eleven)
ResourceNames == {"wheat", "oat"}

\* keys of Vars.OCCUPATIONS and Vars.ORIGINS kept by the model
OCCUPATIONS == {"Unemployed", "Soldier", "Leatherworker"}
ORIGINS == {"Nowhere", "Aramithea"}

\* the rank names set_association_rank accepts
RankNames == {"Member", "Adept", "Officer"}

\* An Acolyte object; Acolyte() is the empty one
Acolyte(acolyte_id) == [kind |-> "Acolyte", acolyte_id |-> acolyte_id]

\* The coroutine object AcolyteObject.get_acolyte_by_id(conn, id) returns when
\* it is not awaited: it has no attribute of an Acolyte
Coroutine(acolyte_id) == [kind |-> "coroutine", acolyte_id |-> acolyte_id]

\* What the stat methods read of the objects the slots hold.  An empty
\* object contributes nothing.
\* ItemObject.Weapon: weapon 1 is the Wooden Spear create_character makes
Weapon(item_id) ==
    CASE item_id = 1 -> [attack |-> 20, type |-> "Spear"]
      [] item_id = 2 -> [attack |-> 7, type |-> "Sword"]
      [] OTHER       -> [attack |-> 0, type |-> "No Type"]

\* ItemObject.Armor
Armor(armor_id) ==
    CASE armor_id = 1 -> [defense |-> 5, is_empty |-> FALSE]
      [] armor_id = 2 -> [defense |-> 8, is_empty |-> FALSE]
      [] armor_id = 3 -> [defense |-> 4, is_empty |-> FALSE]
      [] armor_id = 4 -> [defense |-> 2, is_empty |-> FALSE]
      [] OTHER        -> [defense |-> 0, is_empty |-> TRUE]

\* ItemObject.Accessory
Accessory(item_id) ==
    CASE item_id = 1 -> [prefix |-> "Demonic", type |-> "Lucky"]
      [] item_id = 2 -> [prefix |-> "Strong", type |-> "Lucky"]
      [] OTHER       -> [prefix |-> NoText, type |-> NoText]

\* Vars.ACCESSORY_BONUS[prefix][type]
ACCESSORY_BONUS(prefix, type) ==
    CASE prefix = "Demonic" -> 15
      [] prefix = "Strong"  -> 12
      [] OTHER              -> 0

\* Acolyte.get_attack()
acolyte_get_attack(acolyte) ==
    CASE acolyte.acolyte_id = 1 -> 4
      [] acolyte.acolyte_id = 2 -> 9
      [] OTHER                  -> 0

\* Association.type and Association.get_level()
assc_type(assc) ==
    CASE assc = 1 -> "Brotherhood"
      [] assc = 2 -> "Guild"
      [] OTHER    -> NoText

assc_get_level(assc) == IF assc = 1 THEN 2 ELSE IF assc = 2 THEN 3 ELSE 0

\* Vars.OCCUPATIONS[occupation]['weapon_bonus'] and ['atk_bonus']
weapon_bonus(occupation) ==
    CASE occupation = "Soldier"       -> {"Spear", "Sword"}
      [] occupation = "Leatherworker" -> {"Sword"}
      [] OTHER                        -> {}

occupation_atk_bonus(occupation) == IF occupation = "Soldier" THEN 4 ELSE 0

\* Vars.ORIGINS[origin]['atk_bonus']
origin_atk_bonus(origin) == IF origin = "Aramithea" THEN 3 ELSE 0

\* The rows create_character inserts, as get_player_by_id reads them back
FreshStore ==
    [user_name |-> Name(1), xp |-> 0, equipped_item |-> NULL,
     acolyte1 |-> NULL, acolyte2 |-> NULL, assc |-> NULL, guild_rank |-> NoText,
     gold |-> 0, occupation |-> "Unemployed", origin |-> "Nowhere",
     pvpwins |-> 0, pvpfights |-> 0, bosswins |-> 0, bossfights |-> 0,
     rubidics |-> 0, gravitas |-> 0,
     loc |-> "Aramithea", pitycounter |-> 0, adventure |-> NULL,
     destination |-> NoText, pve_limit |-> 0,
     helmet |-> NULL, bodypiece |-> NULL, boots |-> NULL, accessory |-> NULL,
     resources |-> [r \in ResourceNames |-> 0],
     bank |-> <<>>, champs |-> {}]

\* The rows of a player who has played: member of association 1, five xp
\* short of level 1, one unit of each currency, a guild-bank account
VeteranStore ==
    [user_name |-> Name(2), xp |-> 505, equipped_item |-> 1,
     acolyte1 |-> 1, acolyte2 |-> NULL, assc |-> 1, guild_rank |-> "Adept",
     gold |-> 1, occupation |-> "Soldier", origin |-> "Aramithea",
     pvpwins |-> 1, pvpfights |-> 1, bosswins |-> 0, bossfights |-> 1,
     rubidics |-> 1, gravitas |-> 1,
     loc |-> "Thenuille", pitycounter |-> 1, adventure |-> NULL,
     destination |-> NoText, pve_limit |-> 1,
     helmet |-> 1, bodypiece |-> NULL, boots |-> NULL, accessory |-> NULL,
     resources |-> [r \in ResourceNames |-> 1],
     bank |-> <<5>>, champs |-> {1}]

\* create_character(conn, user_id, name): the four INSERTs take the name as
\* given, every other column gets its default
create_character(name) == [FreshStore EXCEPT !.user_name = name]

InitialStores == {FreshStore, VeteranStore}

\* Player.__init__ followed by Player._load_equips (the stored players are
\* not on an expedition, so _load_equips leaves self.adventure as stored)
Player(d) ==
    [char_name |-> d.user_name, xp |-> d.xp, level |-> get_level(d.xp),
     equipped_item |-> d.equipped_item,
     helmet |-> d.helmet, bodypiece |-> d.bodypiece, boots |-> d.boots,
     accessory |-> d.accessory,
     acolyte1 |-> Acolyte(d.acolyte1), acolyte2 |-> Acolyte(d.acolyte2),
     assc |-> get_assc_by_id(d.assc), guild_rank |-> d.guild_rank,
     gold |-> d.gold, occupation |-> d.occupation, origin |-> d.origin,
     pvp_wins |-> d.pvpwins, pvp_fights |-> d.pvpfights,
     boss_wins |-> d.bosswins, boss_fights |-> d.bossfights,
     rubidics |-> d.rubidics, gravitas |-> d.gravitas,
     location |-> d.loc, pity_counter |-> d.pitycounter,
     adventure |-> d.adventure, destination |-> d.destination,
     pve_limit |-> d.pve_limit,
     resources |-> d.resources]

----------------------------------------------------------------------------
(* The methods of Player.  Each takes self (m), the store (d), the          *)
(* arguments, and fail: the position among the method's write statements of *)
(* the one on which the store raises (0: the store raises on none).         *)

\* await conn.execute(psql, ...) as the only write of a method: it raises and
\* leaves the store as it was, or it applies the statement (d1)
execute(m, d, d1, fail) ==
    IF fail = 1 THEN R(m, d, StoreError, 1, <<>>) ELSE R(m, d1, "ok", 1, <<>>)

give_gold(m, d, gold, fail) ==
    execute([m EXCEPT !.gold = @ + gold], d, [d EXCEPT !.gold = @ + gold], fail)

give_rubidics(m, d, rubidics, fail) ==
    execute([m EXCEPT !.rubidics = @ + rubidics], d,
            [d EXCEPT !.rubidics = @ + rubidics], fail)

give_gravitas_no_clamp(m, d, gravitas, fail) ==
    execute([m EXCEPT !.gravitas = @ + gravitas], d,
            [d EXCEPT !.gravitas = @ + gravitas], fail)

give_gravitas(m, d, gravitas, fail) ==
    LET gravitas1 == IF gravitas < 0 /\ gravitas * (-1) > m.gravitas
                     THEN m.gravitas * (-1) ELSE gravitas
    IN  execute([m EXCEPT !.gravitas = @ + gravitas1], d,
                [d EXCEPT !.gravitas = @ + gravitas1], fail)

\* The UPDATE on a column the resources table does not have
UndefinedColumn == "UndefinedColumnError"

give_resource(m, d, resource, amount, fail) ==
    IF amount < 0 /\ resource \notin DOMAIN m.resources
    THEN R(m, d, "InvalidResource", 0, <<>>)
    ELSE IF amount < 0 /\ amount * (-1) > m.resources[resource]
    THEN R(m, d, "NotEnoughResources", 0,
           << <<resource, amount * (-1) - m.resources[resource],
                m.resources[resource]>> >>)
    ELSE IF resource \notin DOMAIN d.resources
    THEN R(m, d, UndefinedColumn, 1, <<>>)
    ELSE execute(m, d, [d EXCEPT !.resources[resource] = @ + amount], fail)

\* The tail of check_xp_increase: 10% of the gain for each equipped acolyte.
\* Reading acolyte_name of a coroutine object raises AttributeError.
acolyte_xp(r, xp) ==
    LET a_xp == IntDiv(xp, 10)
        a1 == r.mem.acolyte1
        a2 == r.mem.acolyte2
        ev1 == IF a1.kind = "Acolyte" /\ a1.acolyte_id # NULL
               THEN Append(r.events, <<"acolyte_xp", 1, a1.acolyte_id, a_xp>>)
               ELSE r.events
        ev2 == IF a2.kind = "Acolyte" /\ a2.acolyte_id # NULL
               THEN Append(ev1, <<"acolyte_xp", 2, a2.acolyte_id, a_xp>>)
               ELSE ev1
    IN  IF a1.kind = "coroutine"
        THEN [r EXCEPT !.outcome = "AttributeError"]
        ELSE IF a2.kind = "coroutine"
        THEN [r EXCEPT !.outcome = "AttributeError", !.events = ev1]
        ELSE [r EXCEPT !.events = ev2]

check_xp_increase_stale_level(m, d, xp, fail) ==
    execute([m EXCEPT !.xp = @ + xp], d, [d EXCEPT !.xp = @ + xp], fail)

check_xp_increase_no_rubidics(m, d, xp, fail) ==
    LET m1 == [m EXCEPT !.xp = @ + xp]
        m2 == [m1 EXCEPT !.level = get_level(m1.xp)]
        r1 == give_gold(m2, [d EXCEPT !.xp = @ + xp], m2.level * 500, 0)
        up == <<"level_up", m2.level, m2.level * 500, IntDiv(m2.level, 30) + 1>>
    IN  IF m2.level > m.level
        THEN acolyte_xp(R(r1.mem, r1.db, "ok", 2, <<up>>), xp)
        ELSE acolyte_xp(R(m2, [d EXCEPT !.xp = @ + xp], "ok", 1, <<>>), xp)

check_xp_increase(m, d, xp, fail) ==
    LET old_level == m.level
        m1 == [m EXCEPT !.xp = @ + xp]
        d1 == [d EXCEPT !.xp = @ + xp]
        m2 == [m1 EXCEPT !.level = get_level(m1.xp)]
        gold == m2.level * 500
        rubidics == IntDiv(m2.level, 30) + 1
        r1 == give_gold(m2, d1, gold, IF fail = 2 THEN 1 ELSE 0)
        r2 == give_rubidics(r1.mem, r1.db, rubidics, IF fail = 3 THEN 1 ELSE 0)
        up == <<"level_up", m2.level, gold, rubidics>>
    IN  IF fail = 1 THEN R(m1, d, StoreError, 1, <<>>)
        ELSE IF m2.level > old_level
        THEN IF r1.outcome # "ok" THEN [r1 EXCEPT !.nwrites = 2]
             ELSE IF r2.outcome # "ok" THEN [r2 EXCEPT !.nwrites = 3]
             ELSE acolyte_xp(R(r2.mem, r2.db, "ok", 3, <<up>>), xp)
        ELSE acolyte_xp(R(m2, d1, "ok", 1, <<>>), xp)

set_char_name_no_check(m, d, name, fail) ==
    execute([m EXCEPT !.char_name = name], d, [d EXCEPT !.user_name = name], fail)

set_char_name(m, d, name, fail) ==
    IF Len(name) > MaxNameLen
    THEN R(m, d, "ExcessiveCharacterCount", 0, <<>>)
    ELSE execute([m EXCEPT !.char_name = name], d,
                 [d EXCEPT !.user_name = name], fail)

\* is_weapon_owner, is_armor_owner, is_accessory_owner: the awaited SELECT
is_weapon_owner(d, item_id) == item_id \in OwnedWeapons
is_armor_owner(d, armor_id) == armor_id \in OwnedArmor
is_accessory_owner(d, item_id) == item_id \in OwnedAccessories

equip_item(m, d, item_id, fail) ==
    IF ~is_weapon_owner(d, item_id)
    THEN R(m, d, "NotWeaponOwner", 0, <<>>)
    ELSE execute([m EXCEPT !.equipped_item = item_id], d,
                 [d EXCEPT !.equipped_item = item_id], fail)

unequip_item(m, d, fail) ==
    execute([m EXCEPT !.equipped_item = NULL], d,
            [d EXCEPT !.equipped_item = NULL], fail)

equip_armor(m, d, armor_id, fail) ==
    IF ~is_armor_owner(d, armor_id)
    THEN R(m, d, "NotArmorOwner", 0, <<>>)
    ELSE CASE ArmorSlot(armor_id) = "Helmet" ->
                execute([m EXCEPT !.helmet = armor_id], d,
                        [d EXCEPT !.helmet = armor_id], fail)
           [] ArmorSlot(armor_id) = "Bodypiece" ->
                execute([m EXCEPT !.bodypiece = armor_id], d,
                        [d EXCEPT !.bodypiece = armor_id], fail)
           [] ArmorSlot(armor_id) = "Boots" ->
                execute([m EXCEPT !.boots = armor_id], d,
                        [d EXCEPT !.boots = armor_id], fail)
           [] OTHER -> R(m, d, "InvalidArmorType", 0, <<>>)

unequip_armor(m, d, fail) ==
    execute(m, d,
            [d EXCEPT !.helmet = NULL, !.bodypiece = NULL, !.boots = NULL], fail)

equip_accessory(m, d, item_id, fail) ==
    IF ~is_accessory_owner(d, item_id)
    THEN R(m, d, "NotAccessoryOwner", 0, <<>>)
    ELSE execute([m EXCEPT !.accessory = item_id], d,
                 [d EXCEPT !.accessory = item_id], fail)

unequip_accessory(m, d, fail) ==
    execute(m, d, [d EXCEPT !.accessory = NULL], fail)

\* bool() of self.is_acolyte_owner(conn, acolyte_id) in equip_acolyte: the
\* call is not awaited, so the value tested is a coroutine object, which is true
is_acolyte_owner_unawaited(d, acolyte_id) == TRUE

equip_acolyte(m, d, acolyte_id, slot, fail) ==
    IF slot \notin {1, 2}
    THEN R(m, d, "InvalidAcolyteEquip", 0, <<>>)
    ELSE IF ~is_acolyte_owner_unawaited(d, acolyte_id)
    THEN R(m, d, "NotAcolyteOwner", 0, <<>>)
    ELSE IF m.acolyte1.kind = "coroutine" \/ m.acolyte2.kind = "coroutine"
    THEN R(m, d, "AttributeError", 0, <<>>)
    ELSE IF acolyte_id = m.acolyte1.acolyte_id \/ acolyte_id = m.acolyte2.acolyte_id
    THEN R(m, d, "InvalidAcolyteEquip", 0, <<>>)
    ELSE IF slot = 1
    THEN execute([m EXCEPT !.acolyte1 = Coroutine(acolyte_id)], d,
                 [d EXCEPT !.acolyte1 = acolyte_id], fail)
    ELSE execute([m EXCEPT !.acolyte2 = Coroutine(acolyte_id)], d,
                 [d EXCEPT !.acolyte2 = acolyte_id], fail)

unequip_acolyte(m, d, slot, fail) ==
    IF slot = 1
    THEN execute([m EXCEPT !.acolyte1 = Acolyte(NULL)], d,
                 [d EXCEPT !.acolyte1 = NULL], fail)
    ELSE IF slot = 2
    THEN execute([m EXCEPT !.acolyte2 = Acolyte(NULL)], d,
                 [d EXCEPT !.acolyte2 = NULL], fail)
    ELSE R(m, d, "InvalidAcolyteEquip", 0, <<>>)

join_assc(m, d, assc_id, fail) ==
    LET assc == get_assc_by_id(assc_id)
    IN  IF assc = NULL
        THEN R(m, d, "InvalidAssociationID", 0, <<>>)
        ELSE IF get_member_count(d, assc) >= get_member_capacity(assc)
        THEN R(m, d, "AssociationAtCapacity", 0, <<>>)
        ELSE IF fail = 1 THEN R(m, d, StoreError, 1, <<>>)
        ELSE R([m EXCEPT !.assc = assc],
               [d EXCEPT !.assc = assc_id, !.guild_rank = "Member"], "ok", 1, <<>>)

set_association_rank(m, d, rank, fail) ==
    IF rank \notin RankNames
    THEN R(m, d, "InvalidRankName", 0, <<>>)
    ELSE execute([m EXCEPT !.guild_rank = rank], d,
                 [d EXCEPT !.guild_rank = rank], fail)

leave_assc_no_guard(m, d, fail) ==
    LET d4 == [d EXCEPT !.assc = NULL, !.guild_rank = NoText, !.champs = {}]
        d6 == IF d.bank # <<>>
              THEN [d4 EXCEPT !.bank = <<>>, !.gold = @ + d.bank[1]]
              ELSE d4
    IN  R([m EXCEPT !.assc = NULL], d6, "ok", IF d.bank # <<>> THEN 6 ELSE 5, <<>>)

leave_assc(m, d, fail) ==
    LET d1 == [d EXCEPT !.assc = NULL, !.guild_rank = NoText]
        d2 == [d1 EXCEPT !.champs = @ \ {1}]
        d3 == [d2 EXCEPT !.champs = @ \ {2}]
        d4 == [d3 EXCEPT !.champs = @ \ {3}]
        in_bank == d4.bank
        d5 == [d4 EXCEPT !.bank = <<>>]
        d6 == IF in_bank # <<>> THEN [d5 EXCEPT !.gold = @ + in_bank[1]] ELSE d5
        n == IF in_bank # <<>> THEN 6 ELSE 5
        after == <<d, d1, d2, d3, d4, d5, d6>>
    IN  IF m.assc = NULL THEN R(m, d, "ok", 0, <<>>)
        ELSE IF fail \in 1..n THEN R(m, after[fail], StoreError, fail, <<>>)
        ELSE R([m EXCEPT !.assc = NULL], after[n + 1], "ok", n, <<>>)

set_occupation(m, d, occupation, fail) ==
    IF occupation \notin OCCUPATIONS
    THEN R(m, d, "InvalidOccupation", 0, <<>>)
    ELSE execute([m EXCEPT !.occupation = occupation], d,
                 [d EXCEPT !.occupation = occupation], fail)

set_origin(m, d, origin, fail) ==
    IF origin \notin ORIGINS
    THEN R(m, d, "InvalidOrigin", 0, <<>>)
    ELSE execute([m EXCEPT !.origin = origin], d,
                 [d EXCEPT !.origin = origin], fail)

set_pity_counter(m, d, counter, fail) ==
    execute([m EXCEPT !.pity_counter = counter], d,
            [d EXCEPT !.pitycounter = counter], fail)

set_location(m, d, location, fail) ==
    execute([m EXCEPT !.location = location], d, [d EXCEPT !.loc = location], fail)

set_adventure(m, d, adventure, destination, fail) ==
    execute([m EXCEPT !.adventure = adventure, !.destination = destination], d,
            [d EXCEPT !.adventure = adventure, !.destination = destination], fail)

increment_pve_limit(m, d, fail) ==
    execute([m EXCEPT !.pve_limit = @ + 1], d, [d EXCEPT !.pve_limit = @ + 1], fail)

log_pve(m, d, victory, fail) ==
    IF victory
    THEN execute([m EXCEPT !.boss_fights = @ + 1, !.boss_wins = @ + 1], d,
                 [d EXCEPT !.bosswins = @ + 1, !.bossfights = @ + 1], fail)
    ELSE execute([m EXCEPT !.boss_fights = @ + 1], d,
                 [d EXCEPT !.bossfights = @ + 1], fail)

log_pvp_win_only(m, d, victory, fail) ==
    IF victory
    THEN execute([m EXCEPT !.pvp_wins = @ + 1], d, [d EXCEPT !.pvpwins = @ + 1], fail)
    ELSE execute([m EXCEPT !.pvp_fights = @ + 1], d,
                 [d EXCEPT !.pvpfights = @ + 1], fail)

log_pvp(m, d, victory, fail) ==
    IF victory
    THEN execute([m EXCEPT !.pvp_fights = @ + 1, !.pvp_wins = @ + 1], d,
                 [d EXCEPT !.pvpwins = @ + 1, !.pvpfights = @ + 1], fail)
    ELSE execute([m EXCEPT !.pvp_fights = @ + 1], d,
                 [d EXCEPT !.pvpfights = @ + 1], fail)

get_attack_soldier_last(m) ==
    LET attack == 10 + IntDiv(m.level, 2) + Weapon(m.equipped_item).attack
                  + acolyte_get_attack(m.acolyte1) + acolyte_get_attack(m.acolyte2)
                  + (IF Weapon(m.equipped_item).type \in weapon_bonus(m.occupation)
                     THEN 20 ELSE 0)
                  + origin_atk_bonus(m.origin)
                  + (IF assc_type(m.assc) = "Brotherhood"
                     THEN IntDiv(assc_get_level(m.assc) * (assc_get_level(m.assc) + 1), 4)
                     ELSE 0)
                  + occupation_atk_bonus(m.occupation)
                  + (IF Accessory(m.accessory).prefix = "Demonic"
                     THEN ACCESSORY_BONUS("Demonic", Accessory(m.accessory).type)
                     ELSE 0)
    IN  IF m.occupation = "Soldier" THEN IntDiv(attack * 11, 10) ELSE attack

\* get_attack(self), statement by statement; int(attack * 1.1) is
\* attack * 11 / 10 truncated
get_attack(m) ==
    LET a0 == 10 + IntDiv(m.level, 2)
        a1 == a0 + Weapon(m.equipped_item).attack
        a2 == a1 + acolyte_get_attack(m.acolyte1)
        a3 == a2 + acolyte_get_attack(m.acolyte2)
        valid_weapons == weapon_bonus(m.occupation)
        a4 == IF Weapon(m.equipped_item).type \in valid_weapons THEN a3 + 20 ELSE a3
        a5 == a4 + origin_atk_bonus(m.origin)
        lvl == assc_get_level(m.assc)
        a6 == IF assc_type(m.assc) = "Brotherhood"
              THEN a5 + IntDiv(lvl * (lvl + 1), 4) ELSE a5
        a7 == a6 + occupation_atk_bonus(m.occupation)
        a8 == IF m.occupation = "Soldier" THEN IntDiv(a7 * 11, 10) ELSE a7
    IN  IF Accessory(m.accessory).prefix = "Demonic"
        THEN a8 + ACCESSORY_BONUS("Demonic", Accessory(m.accessory).type)
        ELSE a8

get_defense_every_slot(m) ==
    Armor(m.helmet).defense + Armor(m.bodypiece).defense + Armor(m.boots).defense
    + (IF m.occupation = "Leatherworker" THEN 9 ELSE 0)
    + (IF Accessory(m.accessory).prefix = "Strong"
       THEN ACCESSORY_BONUS("Strong", Accessory(m.accessory).type) ELSE 0)

get_defense(m) ==
    LET base == Armor(m.helmet).defense + Armor(m.bodypiece).defense
                + Armor(m.boots).defense
        b1 == IF m.occupation = "Leatherworker" /\ ~Armor(m.helmet).is_empty
              THEN base + 3 ELSE base
        b2 == IF m.occupation = "Leatherworker" /\ ~Armor(m.bodypiece).is_empty
              THEN b1 + 3 ELSE b1
        b3 == IF m.occupation = "Leatherworker" /\ ~Armor(m.boots).is_empty
              THEN b2 + 3 ELSE b2
    IN  IF Accessory(m.accessory).prefix = "Strong"
        THEN b3 + ACCESSORY_BONUS("Strong", Accessory(m.accessory).type)
        ELSE b3

\* A stat method called on self: it writes nothing and returns the stat.
\* Reading the stat of an acolyte slot that holds a coroutine raises.
stat_call(m, d, stat, reads_acolytes) ==
    IF reads_acolytes /\ (m.acolyte1.kind = "coroutine" \/ m.acolyte2.kind = "coroutine")
    THEN R(m, d, "AttributeError", 0, <<>>)
    ELSE R(m, d, "ok", 0, << <<"return", stat>> >>)

----------------------------------------------------------------------------
(* The arguments the callers pass *)

NameInputs == {Name(MaxNameLen), Name(MaxNameLen + 1)}
XpInputs == {-5, 5, 510, 270500}
WeaponInputs == {1, 2}
ArmorInputs == {1, 2, 3, 4, 5}
AccessoryInputs == {1, 2}
AcolyteInputs == {1, 2}
SlotInputs == {1, 2, 3}
AsscInputs == {1, 2, 3}
RankInputs == RankNames \cup {"King"}
GoldInputs == {-1, 1}
RubidicInputs == {-1, 1}
GravitasInputs == {-50, -2, 1, 20}
ResourceInputs == ResourceNames \cup {"gems"}
AmountInputs == {-1, 0, 1}
OccupationInputs == {"Leatherworker", "Pirate"}
OriginInputs == {"Aramithea", "Atlantis"}
PityInputs == {2}
LocationInputs == {"Mythic Forest"}
AdventureInputs == {<<100, "EXPEDITION">>}

\* where the store may raise in a method that issues up to n writes
FailPoints(n) == IF faults THEN 0..n ELSE {0}

\* a call record; the fields a method does not take keep these values
Call(op) == [op |-> op, id |-> NULL, slot |-> 0, amount |-> 0, text |-> "",
             name |-> <<>>, victory |-> FALSE, fail |-> 0]

----------------------------------------------------------------------------
(* The state machine of one loaded Player object *)

CurveIdle == [phase |-> "idle", xp |-> 0, level |-> 0, remaining |-> 0,
              pxp |-> -1, plevel |-> 0, steps |-> 0]

\* the players that call join_assc at once, and the request handlers that
\* hold a Player object of one player
Joiners == {1, 2, 3}
Handlers == {1, 2}

\* no player has joined, and no handler has loaded the player
GuildIdle ==
    [assc |-> [p \in Joiners |-> NULL], pc |-> [p \in Joiners |-> "idle"],
     target |-> [p \in Joiners |-> NULL], result |-> [p \in Joiners |-> "none"],
     joins |-> 0]

SessionsIdle ==
    [store |-> FreshStore, aggregate |-> [h \in Handlers |-> Player(FreshStore)],
     pc |-> [h \in Handlers |-> "idle"], pending |-> [h \in Handlers |-> 0],
     calls |-> 0]

\* one Player object used by one handler at a time
Alone == curve = CurveIdle /\ guild = GuildIdle /\ sessions = SessionsIdle

\* get_player_by_id: the Player object is constructed from the stored rows
Loaded(store, mayFail) ==
    /\ db = store
    /\ record = store
    /\ mem = Player(store)
    /\ pre = [mem |-> Player(store), db |-> store]
    /\ call = Call("get_player_by_id")
    /\ outcome = "ok"
    /\ nwrites = 0
    /\ events = <<>>
    /\ clean = TRUE
    /\ ncalls = 0
    /\ faults = mayFail

Init == /\ \E store \in InitialStores : Loaded(store, FALSE)
        /\ Alone

InitFaults == /\ \E store \in InitialStores : Loaded(store, TRUE)
              /\ Alone

\* One call of a method: c is the call, r what the method does from (mem, db)
Do(c, r) ==
    /\ ncalls < MaxCalls
    /\ ncalls' = ncalls + 1
    /\ pre' = [mem |-> mem, db |-> db]
    /\ call' = c
    /\ mem' = r.mem
    /\ db' = r.db
    /\ outcome' = r.outcome
    /\ nwrites' = r.nwrites
    /\ events' = r.events
    /\ clean' = (clean /\ r.outcome = "ok")
    /\ UNCHANGED <<record, faults, curve, guild, sessions>>

CheckXpIncrease ==
    \E xp \in XpInputs, fail \in FailPoints(3) :
        Do([Call("check_xp_increase") EXCEPT !.amount = xp, !.fail = fail],
           check_xp_increase(mem, db, xp, fail))

SetCharName ==
    \E name \in NameInputs, fail \in FailPoints(1) :
        Do([Call("set_char_name") EXCEPT !.name = name, !.fail = fail],
           set_char_name(mem, db, name, fail))

EquipItem ==
    \E item_id \in WeaponInputs, fail \in FailPoints(1) :
        Do([Call("equip_item") EXCEPT !.id = item_id, !.fail = fail],
           equip_item(mem, db, item_id, fail))

UnequipItem ==
    \E fail \in FailPoints(1) :
        Do([Call("unequip_item") EXCEPT !.fail = fail], unequip_item(mem, db, fail))

EquipArmor ==
    \E armor_id \in ArmorInputs, fail \in FailPoints(1) :
        Do([Call("equip_armor") EXCEPT !.id = armor_id, !.fail = fail],
           equip_armor(mem, db, armor_id, fail))

UnequipArmor ==
    \E fail \in FailPoints(1) :
        Do([Call("unequip_armor") EXCEPT !.fail = fail], unequip_armor(mem, db, fail))

EquipAccessory ==
    \E item_id \in AccessoryInputs, fail \in FailPoints(1) :
        Do([Call("equip_accessory") EXCEPT !.id = item_id, !.fail = fail],
           equip_accessory(mem, db, item_id, fail))

UnequipAccessory ==
    \E fail \in FailPoints(1) :
        Do([Call("unequip_accessory") EXCEPT !.fail = fail],
           unequip_accessory(mem, db, fail))

EquipAcolyte ==
    \E acolyte_id \in AcolyteInputs, slot \in SlotInputs, fail \in FailPoints(1) :
        Do([Call("equip_acolyte") EXCEPT !.id = acolyte_id, !.slot = slot,
                                         !.fail = fail],
           equip_acolyte(mem, db, acolyte_id, slot, fail))

UnequipAcolyte ==
    \E slot \in SlotInputs, fail \in FailPoints(1) :
        Do([Call("unequip_acolyte") EXCEPT !.slot = slot, !.fail = fail],
           unequip_acolyte(mem, db, slot, fail))

JoinAssc ==
    \E assc_id \in AsscInputs, fail \in FailPoints(1) :
        Do([Call("join_assc") EXCEPT !.id = assc_id, !.fail = fail],
           join_assc(mem, db, assc_id, fail))

SetAssociationRank ==
    \E rank \in RankInputs, fail \in FailPoints(1) :
        Do([Call("set_association_rank") EXCEPT !.text = rank, !.fail = fail],
           set_association_rank(mem, db, rank, fail))

LeaveAssc ==
    \E fail \in FailPoints(6) :
        Do([Call("leave_assc") EXCEPT !.fail = fail], leave_assc(mem, db, fail))

GiveGold ==
    \E gold \in GoldInputs, fail \in FailPoints(1) :
        Do([Call("give_gold") EXCEPT !.amount = gold, !.fail = fail],
           give_gold(mem, db, gold, fail))

GiveRubidics ==
    \E rubidics \in RubidicInputs, fail \in FailPoints(1) :
        Do([Call("give_rubidics") EXCEPT !.amount = rubidics, !.fail = fail],
           give_rubidics(mem, db, rubidics, fail))

GiveGravitas ==
    \E gravitas \in GravitasInputs, fail \in FailPoints(1) :
        Do([Call("give_gravitas") EXCEPT !.amount = gravitas, !.fail = fail],
           give_gravitas(mem, db, gravitas, fail))

GiveResource ==
    \E resource \in ResourceInputs, amount \in AmountInputs, fail \in FailPoints(1) :
        Do([Call("give_resource") EXCEPT !.text = resource, !.amount = amount,
                                         !.fail = fail],
           give_resource(mem, db, resource, amount, fail))

SetOccupation ==
    \E occupation \in OccupationInputs, fail \in FailPoints(1) :
        Do([Call("set_occupation") EXCEPT !.text = occupation, !.fail = fail],
           set_occupation(mem, db, occupation, fail))

SetOrigin ==
    \E origin \in OriginInputs, fail \in FailPoints(1) :
        Do([Call("set_origin") EXCEPT !.text = origin, !.fail = fail],
           set_origin(mem, db, origin, fail))

SetPityCounter ==
    \E counter \in PityInputs, fail \in FailPoints(1) :
        Do([Call("set_pity_counter") EXCEPT !.amount = counter, !.fail = fail],
           set_pity_counter(mem, db, counter, fail))

SetLocation ==
    \E location \in LocationInputs, fail \in FailPoints(1) :
        Do([Call("set_location") EXCEPT !.text = location, !.fail = fail],
           set_location(mem, db, location, fail))

SetAdventure ==
    \E adv \in AdventureInputs, fail \in FailPoints(1) :
        Do([Call("set_adventure") EXCEPT !.amount = adv[1], !.text = adv[2],
                                         !.fail = fail],
           set_adventure(mem, db, adv[1], adv[2], fail))

IncrementPveLimit ==
    \E fail \in FailPoints(1) :
        Do([Call("increment_pve_limit") EXCEPT !.fail = fail],
           increment_pve_limit(mem, db, fail))

LogPve ==
    \E victory \in BOOLEAN, fail \in FailPoints(1) :
        Do([Call("log_pve") EXCEPT !.victory = victory, !.fail = fail],
           log_pve(mem, db, victory, fail))

LogPvp ==
    \E victory \in BOOLEAN, fail \in FailPoints(1) :
        Do([Call("log_pvp") EXCEPT !.victory = victory, !.fail = fail],
           log_pvp(mem, db, victory, fail))

GetAttack == Do(Call("get_attack"), stat_call(mem, db, get_attack(mem), TRUE))

GetDefense == Do(Call("get_defense"), stat_call(mem, db, get_defense(mem), FALSE))

Next ==
    \/ CheckXpIncrease
    \/ SetCharName
    \/ EquipItem
    \/ UnequipItem
    \/ EquipArmor
    \/ UnequipArmor
    \/ EquipAccessory
    \/ UnequipAccessory
    \/ EquipAcolyte
    \/ UnequipAcolyte
    \/ JoinAssc
    \/ SetAssociationRank
    \/ LeaveAssc
    \/ GiveGold
    \/ GiveRubidics
    \/ GiveGravitas
    \/ GiveResource
    \/ SetOccupation
    \/ SetOrigin
    \/ SetPityCounter
    \/ SetLocation
    \/ SetAdventure
    \/ IncrementPveLimit
    \/ LogPve
    \/ LogPvp

\* every store call succeeds
Spec == Init /\ [][Next]_vars

\* the store may raise on any write
SpecFaults == InitFaults /\ [][Next]_vars

\* A player made by create_character(name) and returned by its
\* get_player_by_id, then used through the methods
InitCreate == /\ \E name \in NameInputs : Loaded(create_character(name), FALSE)
              /\ Alone

NextCreate == Next \/ GetAttack \/ GetDefense

SpecCreate == InitCreate /\ [][NextCreate]_vars

\* The stat methods on their own, called on players loaded with every
\* combination of these levels, equipment, occupations, origins and
\* associations
StatXp == {0, 770}
StatWeapons == {NULL, 1, 2}
StatAcolytes == {<<NULL, NULL>>, <<1, NULL>>, <<1, 2>>}
StatArmor == {<<NULL, NULL, NULL>>, <<1, NULL, NULL>>, <<1, 2, 3>>}
StatAccessories == {NULL, 1, 2}
StatAsscs == {NULL, 1, 2}

StatStores ==
    {[FreshStore EXCEPT !.xp = xp, !.equipped_item = weapon,
                        !.acolyte1 = acolytes[1], !.acolyte2 = acolytes[2],
                        !.helmet = armor[1], !.bodypiece = armor[2],
                        !.boots = armor[3], !.accessory = accessory,
                        !.occupation = occupation, !.origin = origin,
                        !.assc = assc,
                        !.guild_rank = IF assc = NULL THEN NoText ELSE "Member"] :
        xp \in StatXp, weapon \in StatWeapons, acolytes \in StatAcolytes,
        armor \in StatArmor, accessory \in StatAccessories,
        occupation \in OCCUPATIONS, origin \in ORIGINS, assc \in StatAsscs}

InitStats == /\ \E store \in StatStores : Loaded(store, FALSE)
             /\ Alone

NextStats == GetAttack \/ GetDefense

SpecStats == InitStats /\ [][NextStats]_vars

----------------------------------------------------------------------------
(* get_level on its own: evaluated at an xp near a level threshold, then    *)
(* again after each xp gain.  Between two thresholds the loops of get_level *)
(* stop at the same level, so the level changes only at a threshold.        *)

Thresholds ==
    {0, 500, 540500} \cup {f(n) : n \in 0..MaxCurveLevel}
                     \cup {g(n) : n \in 0..MaxCurveLevel}

XpSamples == {x \in {t + k : t \in Thresholds, k \in -XpWindow..XpWindow} : x >= 0}

CurveGains == {1, 1000}

CurveInit ==
    /\ Loaded(FreshStore, FALSE)
    /\ guild = GuildIdle /\ sessions = SessionsIdle
    /\ \E x \in XpSamples :
          curve = [phase |-> "new", xp |-> x, level |-> 0, remaining |-> 0,
                   pxp |-> -1, plevel |-> 0, steps |-> 0]

\* level, remaining = self.get_level(get_next=True) with self.xp = curve.xp
GetLevel ==
    /\ curve.phase = "new"
    /\ curve' = [curve EXCEPT !.phase = "done",
                              !.level = get_level(curve.xp),
                              !.remaining = get_level_next(curve.xp)[2]]
    /\ UNCHANGED <<mem, db, record, pre, call, outcome, nwrites, events, clean,
                   ncalls, faults, guild, sessions>>

\* self.xp += gain, keeping the level computed before the gain
GainXp ==
    /\ curve.phase = "done"
    /\ curve.steps < MaxCurveSteps
    /\ \E gain \in CurveGains :
          curve' = [curve EXCEPT !.phase = "new", !.xp = @ + gain,
                                 !.pxp = curve.xp, !.plevel = curve.level,
                                 !.steps = @ + 1]
    /\ UNCHANGED <<mem, db, record, pre, call, outcome, nwrites, events, clean,
                   ncalls, faults, guild, sessions>>

CurveNext == GetLevel \/ GainXp

SpecCurve == CurveInit /\ [][CurveNext]_vars

----------------------------------------------------------------------------
(* join_assc called by several players at once.  A call runs up to its      *)
(* awaited UPDATE in one step (it resolves the association and reads the    *)
(* member count), and the UPDATE is a second step: other calls may run      *)
(* between the two.                                                         *)

\* Association.get_member_count(conn) with several players in the store
stored_member_count(assc_column, assc_id) ==
    OtherMembers(assc_id) + Cardinality({p \in Joiners : assc_column[p] = assc_id})

\* join_assc up to `await conn.execute`: the checks, after which the call
\* has raised or stands before its UPDATE
JoinCount(p, assc_id) ==
    /\ guild.pc[p] = "idle"
    /\ guild.joins < MaxJoins
    /\ LET assc == get_assc_by_id(assc_id)
       IN  guild' =
             IF assc = NULL
             THEN [guild EXCEPT !.result[p] = "InvalidAssociationID", !.joins = @ + 1]
             ELSE IF stored_member_count(guild.assc, assc) >= get_member_capacity(assc)
             THEN [guild EXCEPT !.result[p] = "AssociationAtCapacity", !.joins = @ + 1]
             ELSE [guild EXCEPT !.pc[p] = "counted", !.target[p] = assc_id,
                                !.result[p] = "none", !.joins = @ + 1]
    /\ UNCHANGED <<mem, db, record, pre, call, outcome, nwrites, events, clean,
                   ncalls, faults, curve, sessions>>

\* UPDATE players SET assc = $1, guild_rank = 'Member' WHERE user_id = $2
JoinWrite(p) ==
    /\ guild.pc[p] = "counted"
    /\ guild' = [guild EXCEPT !.assc[p] = guild.target[p], !.pc[p] = "idle",
                              !.result[p] = "ok"]
    /\ UNCHANGED <<mem, db, record, pre, call, outcome, nwrites, events, clean,
                   ncalls, faults, curve, sessions>>

JoinInit ==
    /\ Loaded(FreshStore, FALSE)
    /\ curve = CurveIdle /\ sessions = SessionsIdle
    /\ guild = GuildIdle

JoinNext ==
    \/ \E p \in Joiners, assc_id \in AsscInputs : JoinCount(p, assc_id)
    \/ \E p \in Joiners : JoinWrite(p)

SpecJoin == JoinInit /\ [][JoinNext]_vars

----------------------------------------------------------------------------
(* give_gravitas from two request handlers, each with its own Player object *)
(* of the same player.  A call runs up to its awaited UPDATE in one step    *)
(* (the clamp against self.gravitas and self.gravitas += gravitas); the     *)
(* UPDATE, which adds the clamped amount to the stored column, is a second  *)
(* step.                                                                    *)

\* the player's stored rows when the handlers load it
SessionStores == {VeteranStore, [VeteranStore EXCEPT !.gravitas = 20]}

\* the negative amounts the handlers pass
NegativeGravitas == {gravitas \in GravitasInputs : gravitas < 0}

\* get_player_by_id in a handler: a new Player object from the stored rows
LoadPlayer(h) ==
    /\ sessions.pc[h] = "idle"
    /\ sessions' = [sessions EXCEPT !.aggregate[h] = Player(sessions.store)]
    /\ UNCHANGED <<mem, db, record, pre, call, outcome, nwrites, events, clean,
                   ncalls, faults, curve, guild>>

\* give_gravitas up to `await conn.execute`: pending is the amount the
\* UPDATE will add
GiveGravitasBegin(h, gravitas) ==
    /\ sessions.pc[h] = "idle"
    /\ sessions.calls < MaxGravitasCalls
    /\ LET r == give_gravitas(sessions.aggregate[h], sessions.store, gravitas, 0)
       IN  sessions' = [sessions EXCEPT
                           !.aggregate[h] = r.mem,
                           !.pending[h] = r.db.gravitas - sessions.store.gravitas,
                           !.pc[h] = "write",
                           !.calls = @ + 1]
    /\ UNCHANGED <<mem, db, record, pre, call, outcome, nwrites, events, clean,
                   ncalls, faults, curve, guild>>

\* UPDATE players SET gravitas = gravitas + $1 WHERE user_id = $2
GiveGravitasWrite(h) ==
    /\ sessions.pc[h] = "write"
    /\ sessions' = [sessions EXCEPT !.store.gravitas = @ + sessions.pending[h],
                                    !.pending[h] = 0, !.pc[h] = "idle"]
    /\ UNCHANGED <<mem, db, record, pre, call, outcome, nwrites, events, clean,
                   ncalls, faults, curve, guild>>

SessionsInit ==
    /\ Loaded(FreshStore, FALSE)
    /\ curve = CurveIdle /\ guild = GuildIdle
    /\ \E store \in SessionStores :
          sessions = [SessionsIdle EXCEPT
                         !.store = store,
                         !.aggregate = [h \in Handlers |-> Player(store)]]

SessionsNext ==
    \/ \E h \in Handlers : LoadPlayer(h)
    \/ \E h \in Handlers, gravitas \in NegativeGravitas : GiveGravitasBegin(h, gravitas)
    \/ \E h \in Handlers : GiveGravitasWrite(h)

SpecSessions == SessionsInit /\ [][SessionsNext]_vars

----------------------------------------------------------------------------
(* Properties *)

\* The fields of the Player object against the stored columns
InSync(m, d) ==
    /\ m.char_name = d.user_name
    /\ m.xp = d.xp
    /\ m.gold = d.gold
    /\ m.rubidics = d.rubidics
    /\ m.gravitas = d.gravitas
    /\ m.resources = d.resources
    /\ m.equipped_item = d.equipped_item
    /\ m.helmet = d.helmet
    /\ m.bodypiece = d.bodypiece
    /\ m.boots = d.boots
    /\ m.accessory = d.accessory
    /\ m.acolyte1 = Acolyte(d.acolyte1)
    /\ m.acolyte2 = Acolyte(d.acolyte2)
    /\ m.assc = d.assc
    /\ m.guild_rank = d.guild_rank
    /\ m.pvp_wins = d.pvpwins
    /\ m.pvp_fights = d.pvpfights
    /\ m.boss_wins = d.bosswins
    /\ m.boss_fights = d.bossfights

\* C1: after any sequence of calls that all returned normally, every field of
\* the Player object equals the stored value (name, xp, currencies, resources,
\* equipped IDs, association, rank, PvP/PvE counters).
C1_MemoryEqualsStore == clean => InSync(mem, db)

C3_ResourcesNonNegative ==
    \A r \in ResourceNames : mem.resources[r] >= 0 /\ db.resources[r] >= 0

\* C4: gold, rubidics and gravitas are never negative, in the Player object
\* and in the store, whatever signed amounts are given.
C4_CurrenciesNonNegative ==
    /\ mem.gold >= 0 /\ mem.rubidics >= 0 /\ mem.gravitas >= 0
    /\ db.gold >= 0 /\ db.rubidics >= 0 /\ db.gravitas >= 0

\* C5: for a player loaded unassociated and without rank, the guild rank is
\* unset exactly when the association is the empty one (object and store).
C5_RankUnsetIffNoAssc ==
    (record.assc = NULL /\ record.guild_rank = NoText) =>
        /\ (mem.guild_rank = NoText) <=> (mem.assc = NULL)
        /\ (db.guild_rank = NoText) <=> (db.assc = NULL)

\* C6: the two acolyte slots never hold the same non-empty acolyte, and
\* equipping an acolyte that is already equipped in either slot raises the
\* duplicate-equip error (InvalidAcolyteEquip) and leaves both slots unchanged.
C6_NoDuplicateAcolyte ==
    /\ ~(db.acolyte1 # NULL /\ db.acolyte1 = db.acolyte2)
    /\ ~(mem.acolyte1.acolyte_id # NULL
         /\ mem.acolyte1.acolyte_id = mem.acolyte2.acolyte_id)
    /\ (/\ call.op = "equip_acolyte"
        /\ call.slot \in {1, 2}
        /\ call.id \in {pre.db.acolyte1, pre.db.acolyte2})
       => /\ outcome = "InvalidAcolyteEquip"
          /\ mem.acolyte1 = pre.mem.acolyte1 /\ mem.acolyte2 = pre.mem.acolyte2
          /\ db.acolyte1 = pre.db.acolyte1 /\ db.acolyte2 = pre.db.acolyte2

\* C7: every method validates, writes to the store, and only then changes the
\* Player object, so when a write raises the object is as it was before the call.
C7_WriteFailureLeavesMemory == outcome = StoreError => mem = pre.mem

\* The validation error a call must end with, "" when its arguments are valid
ExpectedError(c, p) ==
    CASE c.op = "set_char_name" /\ Len(c.name) > 32 -> "ExcessiveCharacterCount"
      [] c.op = "equip_item" /\ c.id \notin OwnedWeapons -> "NotWeaponOwner"
      [] c.op = "equip_armor" /\ c.id \notin OwnedArmor -> "NotArmorOwner"
      [] c.op = "equip_armor" /\ c.id \in OwnedArmor
            /\ ArmorSlot(c.id) \notin {"Helmet", "Bodypiece", "Boots"}
            -> "InvalidArmorType"
      [] c.op = "equip_accessory" /\ c.id \notin OwnedAccessories
            -> "NotAccessoryOwner"
      [] c.op \in {"equip_acolyte", "unequip_acolyte"} /\ c.slot \notin {1, 2}
            -> "InvalidAcolyteEquip"
      [] c.op = "join_assc" /\ c.id \notin AssociationIds -> "InvalidAssociationID"
      [] c.op = "join_assc" /\ c.id \in AssociationIds
            /\ get_member_count(p.db, c.id) >= get_member_capacity(c.id)
            -> "AssociationAtCapacity"
      [] c.op = "set_association_rank"
            /\ c.text \notin {"Member", "Adept", "Officer"} -> "InvalidRankName"
      [] c.op = "set_occupation" /\ c.text \notin OCCUPATIONS -> "InvalidOccupation"
      [] c.op = "set_origin" /\ c.text \notin ORIGINS -> "InvalidOrigin"
      [] OTHER -> ""

\* C8: a call whose arguments fail the method's validation raises the
\* method's error, issues no write, and leaves the Player object (and the
\* store) exactly as they were.
C8_ValidationFailureIsNoOp ==
    ExpectedError(call, pre) # "" =>
        /\ outcome = ExpectedError(call, pre)
        /\ nwrites = 0
        /\ mem = pre.mem
        /\ db = pre.db

\* A validation failure on a Player object that earlier calls have changed
C8_ValidationFailed ==
    /\ ExpectedError(call, pre) # ""
    /\ outcome = ExpectedError(call, pre)
    /\ pre.mem # Player(record)

\* C9: for xp >= 0, get_level(get_next=True) returns a remaining amount that
\* is positive and is exactly the distance to the next level: the level at
\* xp + remaining is level + 1 and the level at xp + remaining - 1 is level.
C9_RemainingIsDistanceToNextLevel ==
    curve.phase = "done" =>
        /\ curve.remaining > 0
        /\ get_level(curve.xp + curve.remaining) = curve.level + 1
        /\ get_level(curve.xp + curve.remaining - 1) = curve.level

\* C10: the level never decreases when xp grows, is 0 below 500 xp, and a gain
\* of 1 xp changes it by 0 or +1, also across 540499 -> 540500 -> 540501.
C10_LevelMonotoneStepOne ==
    curve.phase = "done" =>
        /\ curve.xp < 500 => curve.level = 0
        /\ curve.pxp >= 0 => curve.plevel <= curve.level
        /\ (curve.pxp >= 0 /\ curve.xp = curve.pxp + 1)
               => curve.level \in {curve.plevel, curve.plevel + 1}

\* The two single-xp gains from 540499: the second one crosses to the quartic
\* branch and raises the level by one
C10_CrossedCurveSwitch ==
    /\ curve.phase = "done"
    /\ curve.steps = 2
    /\ curve.xp = 540501
    /\ curve.pxp = 540500
    /\ curve.level = curve.plevel + 1


\* C11: the two curves meet at the switch and the switch is the level-30
\* boundary: at xp = 540500 the cubic branch and the quartic branch give the
\* same level, every xp <= 540500 has level <= 30 and every xp > 540500 has
\* level >= 30.
C11_SwitchAtLevel30 ==
    curve.phase = "done" =>
        /\ curve.xp = 540500 => cubic_level(curve.xp) = quartic_level(curve.xp)
        /\ curve.xp <= 540500 => curve.level <= 30
        /\ curve.xp > 540500 => curve.level >= 30


\* the level-up notifications among the responses of the last call
LevelUps == {i \in DOMAIN events : events[i][1] = "level_up"}

\* C12: check_xp_increase(xp) adds xp to the xp and recomputes the level; if
\* and only if the new level is above the level before the call it grants,
\* once, gold = new_level * 500 and rubidics = floor(new_level / 30) + 1 in
\* memory and in the store and sends one level-up notification; otherwise
\* gold and rubidics stay and nothing is sent.
C12_LevelUpRewardOnce ==
    call.op = "check_xp_increase" =>
        LET new_level == get_level(pre.mem.xp + call.amount)
            gold == IF new_level > pre.mem.level THEN new_level * 500 ELSE 0
            rubidics == IF new_level > pre.mem.level
                        THEN (new_level \div 30) + 1 ELSE 0
        IN  /\ mem.xp = pre.mem.xp + call.amount
            /\ db.xp = pre.db.xp + call.amount
            /\ mem.level = new_level
            /\ mem.gold = pre.mem.gold + gold
            /\ db.gold = pre.db.gold + gold
            /\ mem.rubidics = pre.mem.rubidics + rubidics
            /\ db.rubidics = pre.db.rubidics + rubidics
            /\ Cardinality(LevelUps) = IF new_level > pre.mem.level THEN 1 ELSE 0
            /\ \A i \in LevelUps :
                   events[i] = <<"level_up", new_level, gold, rubidics>>

\* a call that reached level 30, where the rubidics reward is 2, after a call
\* that did not raise the level
C12_RewardAtLevel30 ==
    /\ call.op = "check_xp_increase"
    /\ mem.level = 30
    /\ pre.mem.level < 30
    /\ mem.rubidics = pre.mem.rubidics + 2
    /\ mem.gold = pre.mem.gold + 15000
    /\ LevelUps # {}
    /\ ncalls = 2


\* C13: after unequip_item, unequip_armor or unequip_accessory completes, the
\* in-memory reference(s) it is about are the empty object and the stored ID
\* column(s) are null.
C13_UnequipClearsMemoryAndStore ==
    outcome = "ok" =>
        /\ call.op = "unequip_item" =>
               mem.equipped_item = NULL /\ db.equipped_item = NULL
        /\ call.op = "unequip_armor" =>
               /\ mem.helmet = NULL /\ mem.bodypiece = NULL /\ mem.boots = NULL
               /\ db.helmet = NULL /\ db.bodypiece = NULL /\ db.boots = NULL
        /\ call.op = "unequip_accessory" =>
               mem.accessory = NULL /\ db.accessory = NULL

\* C14: equip_acolyte with a valid slot and an acolyte the player does not own
\* fails with NotAcolyteOwner, writes nothing and leaves both slots as they
\* were.
C14_EquipUnownedAcolyteFails ==
    (/\ call.op = "equip_acolyte"
     /\ call.slot \in {1, 2}
     /\ call.id \notin OwnedAcolytes) =>
        /\ outcome = "NotAcolyteOwner"
        /\ nwrites = 0
        /\ mem.acolyte1 = pre.mem.acolyte1 /\ mem.acolyte2 = pre.mem.acolyte2
        /\ db.acolyte1 = pre.db.acolyte1 /\ db.acolyte2 = pre.db.acolyte2

\* C15: after a successful join_assc(assc_id) the association is the target
\* and the guild rank is "Member", in memory and in the store.
C15_JoinSetsAsscAndMember ==
    (call.op = "join_assc" /\ outcome = "ok") =>
        /\ mem.assc = get_assc_by_id(call.id) /\ db.assc = call.id
        /\ mem.guild_rank = "Member" /\ db.guild_rank = "Member"

\* C16: after a successful leave_assc by a member, the guild-bank account is
\* gone and gold is the gold before plus the account's balance, in memory and
\* in the store; without an account gold is unchanged.
C16_LeaveRefundsBank ==
    (call.op = "leave_assc" /\ outcome = "ok" /\ pre.mem.assc # NULL) =>
        LET B == IF pre.db.bank # <<>> THEN pre.db.bank[1] ELSE 0
        IN  /\ db.bank = <<>>
            /\ db.gold = pre.db.gold + B
            /\ mem.gold = pre.mem.gold + B


\* C17: leave_assc on a player whose association is empty writes nothing to
\* the store and leaves every in-memory field as it was.
C17_LeaveWithoutAsscIsNoOp ==
    (call.op = "leave_assc" /\ pre.mem.assc = NULL) =>
        /\ outcome = "ok"
        /\ nwrites = 0
        /\ mem = pre.mem
        /\ db = pre.db

\* leave_assc called again by a player who was a member when loaded and has
\* already left
C17_LeftTwice ==
    /\ call.op = "leave_assc"
    /\ pre.mem.assc = NULL
    /\ record.assc # NULL
    /\ nwrites = 0

\* C18: give_gravitas(d) on balance b: when d < 0 and |d| > b the balance
\* becomes 0 and the store is changed by -b; every other d is added as it is;
\* so in-memory and stored gravitas stay equal and never go below zero.
C18_GravitasClampedInSync ==
    /\ mem.gravitas = db.gravitas
    /\ mem.gravitas >= 0
    /\ call.op = "give_gravitas" =>
           LET b == pre.mem.gravitas
               delta == call.amount
           IN  IF delta < 0 /\ -delta > b
               THEN mem.gravitas = 0 /\ db.gravitas = pre.db.gravitas - b
               ELSE /\ mem.gravitas = b + delta
                    /\ db.gravitas = pre.db.gravitas + delta

\* the example of the claim: balance 20, delta -50, balance 0 afterwards
C18_ClampedFrom20 ==
    /\ call.op = "give_gravitas"
    /\ call.amount = -50
    /\ pre.mem.gravitas = 20
    /\ mem.gravitas = 0
    /\ db.gravitas = 0


\* C19: give_resource on a known resource with amount < 0 and |amount| above
\* the player's balance of it fails with NotEnoughResources carrying the
\* shortfall |amount| - balance and the balance, writes nothing and leaves
\* the balance as it was.
C19_OverdrawFails ==
    (/\ call.op = "give_resource"
     /\ call.text \in ResourceNames
     /\ call.amount < 0
     /\ -call.amount > pre.db.resources[call.text]) =>
        LET balance == pre.db.resources[call.text]
        IN  /\ outcome = "NotEnoughResources"
            /\ events = << <<call.text, -call.amount - balance, balance>> >>
            /\ nwrites = 0
            /\ db.resources = pre.db.resources
            /\ mem.resources = pre.mem.resources

\* C20: give_resource with a resource name the player's bag does not have
\* fails with InvalidResource whatever the amount (negative, zero or
\* positive) and writes nothing.
C20_UnknownResourceFails ==
    (call.op = "give_resource" /\ call.text \notin ResourceNames) =>
        /\ outcome = "InvalidResource"
        /\ nwrites = 0
        /\ db = pre.db


\* C21: a player created by create_character and then renamed by any
\* sequence of set_char_name calls has a character name of at most 32
\* characters, in memory and in the store.
C21_NameAtMost32 ==
    Len(mem.char_name) <= MaxNameLen /\ Len(db.user_name) <= MaxNameLen


\* C22: get_attack() returns S = 10 + floor(level/2) + weapon attack +
\* companion 1 attack + companion 2 attack + 20 if the weapon type is in the
\* occupation's bonus-weapon set + origin attack bonus + floor(L*(L+1)/4) if
\* the association is a Brotherhood of level L + occupation attack bonus;
\* S becomes trunc(S * 1.1) exactly for a Soldier; the Demonic accessory
\* bonus is added after that.
C22_AttackFormula ==
    call.op = "get_attack" =>
        LET p == pre.mem
            L == assc_get_level(p.assc)
            S == 10 + (p.level \div 2) + Weapon(p.equipped_item).attack
                 + acolyte_get_attack(p.acolyte1) + acolyte_get_attack(p.acolyte2)
                 + (IF Weapon(p.equipped_item).type \in weapon_bonus(p.occupation)
                    THEN 20 ELSE 0)
                 + origin_atk_bonus(p.origin)
                 + (IF assc_type(p.assc) = "Brotherhood" THEN (L * (L + 1)) \div 4 ELSE 0)
                 + occupation_atk_bonus(p.occupation)
            S1 == IF p.occupation = "Soldier" THEN (S * 11) \div 10 ELSE S
            demonic == IF Accessory(p.accessory).prefix = "Demonic"
                       THEN ACCESSORY_BONUS("Demonic", Accessory(p.accessory).type)
                       ELSE 0
        IN  outcome = "ok" /\ events = << <<"return", S1 + demonic>> >>

\* a Soldier of level 3 with the spear, two acolytes, a Brotherhood and a
\* Demonic accessory: S = 10+1+20+4+9+20+3+1+4 = 72, trunc(79.2) + 15 = 94
\* (multiplying after the Demonic bonus would give 95)
C22_SoldierWithDemonic ==
    /\ call.op = "get_attack"
    /\ mem.occupation = "Soldier"
    /\ Accessory(mem.accessory).prefix = "Demonic"
    /\ assc_type(mem.assc) = "Brotherhood"
    /\ mem.level = 3
    /\ events = << <<"return", 94>> >>


\* C23: get_defense() returns helmet + bodypiece + boots defense, plus 3 for
\* each armor slot that holds a piece exactly when the occupation is
\* Leatherworker, plus the Strong accessory bonus exactly when the accessory
\* prefix is Strong; with no armor and no Strong accessory it returns 0.
C23_DefenseFormula ==
    call.op = "get_defense" =>
        LET p == pre.mem
            pieces == <<Armor(p.helmet), Armor(p.bodypiece), Armor(p.boots)>>
            worn == {i \in 1..3 : ~pieces[i].is_empty}
            leather == IF p.occupation = "Leatherworker"
                       THEN 3 * Cardinality(worn) ELSE 0
            strong == IF Accessory(p.accessory).prefix = "Strong"
                      THEN ACCESSORY_BONUS("Strong", Accessory(p.accessory).type)
                      ELSE 0
            total == pieces[1].defense + pieces[2].defense + pieces[3].defense
                     + leather + strong
        IN  /\ outcome = "ok"
            /\ events = << <<"return", total>> >>
            /\ (worn = {} /\ Accessory(p.accessory).prefix # "Strong") =>
                   events = << <<"return", 0>> >>

\* a Leatherworker wearing only a helmet (defense 5), with a Strong
\* accessory (12): 5 + 3 + 12
C23_LeatherworkerHelmetOnly ==
    /\ call.op = "get_defense"
    /\ mem.occupation = "Leatherworker"
    /\ mem.helmet # NULL /\ mem.bodypiece = NULL /\ mem.boots = NULL
    /\ Accessory(mem.accessory).prefix = "Strong"
    /\ events = << <<"return", 20>> >>


\* C24: the player create_character returns has xp 0 and level 0, and its
\* get_attack() is 30: the starter weapon (attack 20) is its equipped weapon.
C24_NewPlayerAttack30 ==
    /\ ncalls = 0 => mem.xp = 0 /\ mem.level = 0
    /\ (ncalls = 1 /\ call.op = "get_attack") =>
           /\ Weapon(pre.mem.equipped_item).attack = 20
           /\ events = << <<"return", 30>> >>


\* C25: whatever is called on a player, check_xp_increase with any integer
\* amount included, the xp in memory and in the store is never below what it
\* was before the call and never negative.
C25_XpNeverDecreases ==
    /\ mem.xp >= pre.mem.xp /\ db.xp >= pre.db.xp
    /\ mem.xp >= 0 /\ db.xp >= 0


\* the calls of the acolyte in the given slot made by the last call
AcolyteCalls(slot) ==
    {i \in DOMAIN events : events[i][1] = "acolyte_xp" /\ events[i][2] = slot}

\* C26: check_xp_increase(xp) calls the xp gain of each equipped acolyte
\* exactly once with trunc(xp / 10), after the player's own xp and level-up
\* rewards have been applied, and never calls it for an empty slot.
C26_AcolytesGetTenth ==
    call.op = "check_xp_increase" =>
        \A slot \in {1, 2} :
            LET acolyte == IF slot = 1 THEN pre.mem.acolyte1 ELSE pre.mem.acolyte2
            IN  IF acolyte.acolyte_id # NULL
                THEN /\ Cardinality(AcolyteCalls(slot)) = 1
                     /\ \A i \in AcolyteCalls(slot) :
                            /\ events[i] = <<"acolyte_xp", slot, acolyte.acolyte_id,
                                             IntDiv(call.amount, 10)>>
                            /\ \A j \in LevelUps : j < i
                     /\ mem.xp = pre.mem.xp + call.amount
                ELSE AcolyteCalls(slot) = {}


\* C27: however join_assc calls of distinct players on one association
\* interleave, the number of players whose stored association it is never
\* exceeds the association's member capacity.
C27_NeverOverCapacity ==
    \A assc_id \in AssociationIds :
        stored_member_count(guild.assc, assc_id) <= get_member_capacity(assc_id)


\* C28: when two request handlers hold separately loaded Player objects of
\* the same player and interleave give_gravitas calls with negative amounts,
\* the player's stored gravitas never drops below zero.
C28_StoredGravitasNonNegative == sessions.store.gravitas >= 0


\* C29: for a player loaded with wins <= fights in both modes, after any
\* sequence of log_pvp and log_pve calls the wins never exceed the fights in
\* either mode; each call adds exactly 1 to the fights of its mode and 1 to
\* its wins exactly when victory is true, and leaves the other mode's
\* counters as they were.
C29_WinsWithinFights ==
    LET won == IF call.victory THEN 1 ELSE 0
    IN  /\ mem.pvp_wins <= mem.pvp_fights /\ mem.boss_wins <= mem.boss_fights
        /\ db.pvpwins <= db.pvpfights /\ db.bosswins <= db.bossfights
        /\ call.op = "log_pvp" =>
               /\ mem.pvp_fights = pre.mem.pvp_fights + 1
               /\ mem.pvp_wins = pre.mem.pvp_wins + won
               /\ db.pvpfights = pre.db.pvpfights + 1
               /\ db.pvpwins = pre.db.pvpwins + won
               /\ mem.boss_fights = pre.mem.boss_fights
               /\ mem.boss_wins = pre.mem.boss_wins
               /\ db.bossfights = pre.db.bossfights
               /\ db.bosswins = pre.db.bosswins
        /\ call.op = "log_pve" =>
               /\ mem.boss_fights = pre.mem.boss_fights + 1
               /\ mem.boss_wins = pre.mem.boss_wins + won
               /\ db.bossfights = pre.db.bossfights + 1
               /\ db.bosswins = pre.db.bosswins + won
               /\ mem.pvp_fights = pre.mem.pvp_fights
               /\ mem.pvp_wins = pre.mem.pvp_wins
               /\ db.pvpfights = pre.db.pvpfights
               /\ db.pvpwins = pre.db.pvpwins

\* a player who had won every PvP fight wins another one, after a lost boss
\* fight
C29_WonAgainAfterBossLoss ==
    /\ call.op = "log_pvp" /\ call.victory
    /\ record.pvpwins = record.pvpfights /\ record.pvpfights > 0
    /\ mem.pvp_wins = mem.pvp_fights
    /\ mem.boss_fights = record.bossfights + 1
    /\ mem.boss_wins = record.bosswins

====
